---- MODULE Spec2Model ----
(***************************************************************************)
(* Task-Management-Dashboard: the REST back end (Auth Gate, Task Service,  *)
(* Task Query Engine, Profile Service) as a state machine over the two     *)
(* persistent collections, Users and Tasks.                                *)
(*                                                                         *)
(* Strings that the code inspects character by character (title,          *)
(* description, name, search) are sequences of one-character strings;     *)
(* strings that the code only compares (status, priority, e-mail, dates)  *)
(* are TLA+ strings.  A JSON object is a function whose DOMAIN is the set  *)
(* of fields that are present; JSON null is the string "null".            *)
(*                                                                         *)
(* The Client Session (AuthProvider) is a second state machine over the    *)
(* browser's storage, the provider's state and the requests in flight.     *)
(***************************************************************************)
EXTENDS Integers, Sequences, FiniteSets, TLC

VARIABLES
    users,      \* Users collection: user id -> stored document
    tasks,      \* Tasks collection: task id -> stored document
    nextId,     \* next ObjectId the store hands out (ids are never reused)
    createdBy,  \* history: task id -> identity that issued the creating POST
    last,       \* the request handled by the latest step and its response
    localStorage, \* browser storage of the client: the items 'token' and 'user'
    user,       \* AuthProvider state: the signed-in user, or null
    loading,    \* AuthProvider state: TRUE until the mount effect has run
    pending,    \* requests of the client that are in flight
    event,      \* the latest step of the client
    dash,       \* Dashboard state: filters, displayed tasks, list requests in flight
    proc,       \* the server process: entry point, environment, phase
    inflight    \* requests a handler has begun and not yet answered

serverVars == <<users, tasks, nextId, createdBy, last, proc, inflight>>

sessionVars == <<localStorage, user, loading, pending, event>>

clientVars == <<sessionVars, dash>>

vars == <<serverVars, clientVars>>

----------------------------------------------------------------------------
(* Bounds *)

\* number of ObjectIds the Tasks collection hands out in one run
MaxTasks == 2

\* number of login and register requests the client has in flight at once
MaxPending == 2

\* number of requests whose handlers are between two store calls at once
MaxInflight == 2

\* list requests that one Dashboard sends
MaxFetches == 3

----------------------------------------------------------------------------
(* Program constants *)

TitleMax == 200
DescriptionMax == 1000
NameMax == 50

StatusEnum == {"todo", "in-progress", "completed"}
PriorityEnum == {"low", "medium", "high"}
SortByEnum == {"createdAt", "dueDate", "priority", "title"}
SortOrderEnum == {"asc", "desc"}

\* paths of taskSchema that a client document can carry
TaskPaths == {"title", "description", "status", "priority", "dueDate", "user"}

NULL == "null"

\* null where the other values are objects: getItem of a missing key, the
\* provider's user when nobody is signed in
JsNull == [null |-> TRUE]

----------------------------------------------------------------------------
(* Generic helpers *)

Merge(f, g) ==
    [k \in (DOMAIN f) \cup (DOMAIN g) |-> IF k \in DOMAIN g THEN g[k] ELSE f[k]]

Restrict(f, S) == [k \in (DOMAIN f) \cap S |-> f[k]]

Has(obj, k) == k \in DOMAIN obj

EmptyObj == [k \in {} |-> NULL]

Rep(c, n) == [i \in 1..n |-> c]

IsSpace(c) == c = " "

RECURSIVE TrimLeft(_)
TrimLeft(s) ==
    IF s = <<>> THEN s
    ELSE IF IsSpace(Head(s)) THEN TrimLeft(Tail(s)) ELSE s

RECURSIVE TrimRight(_)
TrimRight(s) ==
    IF s = <<>> THEN s
    ELSE IF IsSpace(s[Len(s)]) THEN TrimRight(SubSeq(s, 1, Len(s) - 1)) ELSE s

\* String.prototype.trim as used by the validator's .trim() and by the
\* schema's trim: true
Trim(s) == TrimRight(TrimLeft(s))

----------------------------------------------------------------------------
(* Dates: ISO-8601 input strings, the instant they denote, and the form the *)
(* stored Date takes when the document is serialised to JSON.              *)

\* input string -> canonical serialisation of the instant it denotes
DateTable ==
    [ d \in {"2024-01-15", "2024-01-15T00:00:00.000Z", "2024-02-01T00:00:00.000Z"} |->
        IF d = "2024-02-01T00:00:00.000Z" THEN "2024-02-01T00:00:00.000Z"
        ELSE "2024-01-15T00:00:00.000Z" ]

IsISO8601(s) == s \in DOMAIN DateTable

\* mongoose cast to Date followed by Date.prototype.toJSON
CastDate(s) == DateTable[s]

\* order of the stored dates (null sorts before every date)
DateOrd(d) ==
    CASE d = NULL -> 0
      [] d = "2024-01-15T00:00:00.000Z" -> 1
      [] d = "2024-02-01T00:00:00.000Z" -> 2

----------------------------------------------------------------------------
(* Auth Gate: middleware/auth.js protect *)

UserIds == {"u1", "u2", "u3"}

Token(id, wellFormed, sigValid, expired) ==
    [id |-> id, wellFormed |-> wellFormed, sigValid |-> sigValid, expired |-> expired]

ValidToken(id) == Token(id, TRUE, TRUE, FALSE)

Bearer(t) == [scheme |-> "Bearer", token |-> t]

\* req.headers.authorization && startsWith('Bearer'), then split(' ')[1]
ExtractToken(h) ==
    IF h.scheme = "Bearer" /\ Has(h, "token")
    THEN [found |-> TRUE, token |-> h.token]
    ELSE [found |-> FALSE]

JwtVerify_ignoreExpiry(t) ==
    IF t.wellFormed /\ t.sigValid
    THEN [ok |-> TRUE, id |-> t.id]
    ELSE [ok |-> FALSE]

\* jwt.verify(token, secret): throws unless well formed, signed, unexpired
JwtVerify(t) ==
    IF t.wellFormed /\ t.sigValid /\ ~t.expired
    THEN [ok |-> TRUE, id |-> t.id]
    ELSE [ok |-> FALSE]

\* User.findById(id).select('-password')
SelectPublic(store, id) ==
    Merge([id |-> id], Restrict(store[id], DOMAIN store[id] \ {"password"}))

Unauthorized(msg) == [ok |-> FALSE, resp |-> [status |-> 401, message |-> msg]]

Protect_noUserCheck(store, h) ==
    LET x == ExtractToken(h) IN
    IF ~x.found
    THEN Unauthorized("Not authorized to access this route. Please login.")
    ELSE LET d == JwtVerify(x.token) IN
         IF ~d.ok
         THEN Unauthorized("Invalid token. Please login again.")
         ELSE [ok |-> TRUE,
               user |-> IF d.id \in DOMAIN store THEN SelectPublic(store, d.id)
                        ELSE [id |-> d.id]]

Protect(store, h) ==
    LET x == ExtractToken(h) IN
    IF ~x.found
    THEN Unauthorized("Not authorized to access this route. Please login.")
    ELSE LET d == JwtVerify(x.token) IN
         IF ~d.ok
         THEN Unauthorized("Invalid token. Please login again.")
         ELSE IF d.id \notin DOMAIN store
              THEN Unauthorized("User not found with this token")
              ELSE [ok |-> TRUE, user |-> SelectPublic(store, d.id)]

NoIdentity == [id |-> "none"]

\* what every route records when the gate ends the request
Rejected(req, auth) ==
    [req |-> req, resp |-> auth.resp, reached |-> FALSE, identity |-> NoIdentity]

Handled(req, auth, resp) ==
    [req |-> req, resp |-> resp, reached |-> TRUE, identity |-> auth.user]

----------------------------------------------------------------------------
(* Task model: models/Task.js taskSchema, as mongoose applies it *)

\* a 24-hex-digit ObjectId string is modelled by a positive number; 0 stands
\* for an :id that does not cast to ObjectId
WellFormedId(id) == id >= 1

\* Task.create(data): strict schema (unknown paths dropped), setters (trim),
\* casts (Date) and defaults; _id and createdAt are assigned by the store
SchemaCreate_dropsDescription(data, id) ==
    [ _id       |-> id,
      title     |-> Trim(data.title),
      status    |-> IF Has(data, "status") THEN data.status ELSE "todo",
      priority  |-> IF Has(data, "priority") THEN data.priority ELSE "medium",
      dueDate   |-> IF Has(data, "dueDate") THEN CastDate(data.dueDate) ELSE NULL,
      user      |-> data.user,
      createdAt |-> id ]

SchemaCreate(data, id) ==
    Merge(
      [ _id       |-> id,
        title     |-> Trim(data.title),
        status    |-> IF Has(data, "status") THEN data.status ELSE "todo",
        priority  |-> IF Has(data, "priority") THEN data.priority ELSE "medium",
        dueDate   |-> IF Has(data, "dueDate") THEN CastDate(data.dueDate) ELSE NULL,
        user      |-> data.user,
        createdAt |-> id ],
      IF Has(data, "description")
      THEN [description |-> Trim(data.description)]
      ELSE EmptyObj)

\* cast of one path of an update document
CastPath(k, v) ==
    CASE k \in {"title", "description"} -> Trim(v)
      [] k = "dueDate" -> CastDate(v)
      [] OTHER -> v

ApplyUpdate_overwrite(doc, update) ==
    LET set == Restrict(update, TaskPaths) IN
    Merge([doc EXCEPT !.status = "todo", !.priority = "medium", !.dueDate = NULL],
          [k \in DOMAIN set |-> CastPath(k, set[k])])

\* the $set that findByIdAndUpdate derives from a plain update object
ApplyUpdate(doc, update) ==
    LET set == Restrict(update, TaskPaths) IN
    Merge(doc, [k \in DOMAIN set |-> CastPath(k, set[k])])

FindOne_anyOwner(store, id, uid) ==
    IF ~WellFormedId(id) THEN [kind |-> "CastError"]
    ELSE IF id \in DOMAIN store
         THEN [kind |-> "doc", doc |-> store[id]]
         ELSE [kind |-> "null"]

FindOne_castAsNull(store, id, uid) ==
    IF id \in DOMAIN store /\ store[id].user = uid
    THEN [kind |-> "doc", doc |-> store[id]]
    ELSE [kind |-> "null"]

\* Task.findOne({ _id: id, user: uid })
FindOne(store, id, uid) ==
    IF ~WellFormedId(id) THEN [kind |-> "CastError"]
    ELSE IF id \in DOMAIN store /\ store[id].user = uid
         THEN [kind |-> "doc", doc |-> store[id]]
         ELSE [kind |-> "null"]

\* Task.findByIdAndUpdate(id, update, { new: true, runValidators: true })
FindByIdAndUpdate(store, id, update) ==
    IF id \in DOMAIN store
    THEN [store EXCEPT ![id] = ApplyUpdate(store[id], update)]
    ELSE store

FindByIdAndDelete_byOwner(store, id) ==
    Restrict(store, {i \in DOMAIN store : store[i].user # store[id].user})

\* Task.findByIdAndDelete(id)
FindByIdAndDelete(store, id) == Restrict(store, DOMAIN store \ {id})

----------------------------------------------------------------------------
(* express-validator chains of routes/tasks.js *)

TitleErrors(v) == v = <<>> \/ Len(v) > TitleMax

CommonErrors(b) ==
    {f \in {"description"} : Has(b, f) /\ Len(Trim(b[f])) > DescriptionMax}
    \cup {f \in {"status"} : Has(b, f) /\ b[f] \notin StatusEnum}
    \cup {f \in {"priority"} : Has(b, f) /\ b[f] \notin PriorityEnum}
    \cup {f \in {"dueDate"} : Has(b, f) /\ ~IsISO8601(b[f])}

PostErrors_noLength(b) ==
    {f \in {"title"} : (IF Has(b, f) THEN Trim(b[f]) ELSE <<>>) = <<>>}
    \cup {f \in {"status"} : Has(b, f) /\ b[f] \notin StatusEnum}

\* POST /: title is required, the other fields are optional()
PostErrors(b) ==
    {f \in {"title"} : TitleErrors(IF Has(b, f) THEN Trim(b[f]) ELSE <<>>)}
    \cup CommonErrors(b)

PutErrors_titleOnly(b) ==
    {f \in {"title"} : Has(b, f) /\ Trim(b[f]) = <<>>}

\* PUT /:id : every field is optional()
PutErrors(b) ==
    {f \in {"title"} : Has(b, f) /\ TitleErrors(Trim(b[f]))}
    \cup CommonErrors(b)

\* the .trim() sanitizers write the trimmed value back into req.body
Sanitize(b) ==
    [k \in DOMAIN b |-> IF k \in {"title", "description"} THEN Trim(b[k]) ELSE b[k]]

ValidationFailed(errs) ==
    [status |-> 400, message |-> "Validation failed", errors |-> errs]

InvalidTaskId == [status |-> 400, message |-> "Invalid task ID"]

TaskNotFound == [status |-> 404, message |-> "Task not found"]

\* the global error handler of server.js: err.status || 500, err.message ||
\* 'Internal Server Error', and the stack when NODE_ENV is development
ErrorHandler(err, nodeEnv) ==
    Merge([status |-> IF Has(err, "status") /\ err.status # 0 THEN err.status ELSE 500,
           message |-> IF Has(err, "message") /\ err.message # ""
                       THEN err.message ELSE "Internal Server Error"],
          IF nodeEnv = "development" THEN [stack |-> err.stack] ELSE EmptyObj)

\* the response to a store error with this message that a route passed to next()
InternalError(msg) ==
    ErrorHandler([name |-> "MongoServerError", message |-> msg, stack |-> "at model.Query"],
                 "production")

TaskData_bodyWins(b, uid) == Merge([user |-> uid], b)

\* { ...req.body, user: req.user.id }
TaskData(b, uid) == Merge(b, [user |-> uid])

----------------------------------------------------------------------------
(* Task Query Engine: GET / of routes/tasks.js *)

QueryErrors(q) ==
    {f \in {"status"} : Has(q, f) /\ q[f] \notin StatusEnum}
    \cup {f \in {"priority"} : Has(q, f) /\ q[f] \notin PriorityEnum}
    \cup {f \in {"sortBy"} : Has(q, f) /\ q[f] \notin SortByEnum}
    \cup {f \in {"sortOrder"} : Has(q, f) /\ q[f] \notin SortOrderEnum}

\* query('search').optional().trim(); an empty string is falsy in if (search)
SearchOf(q) == IF Has(q, "search") THEN Trim(q.search) ELSE <<>>

SortByOf(q) == IF Has(q, "sortBy") THEN q.sortBy ELSE "createdAt"

SortOrderOf_defaultAsc(q) == IF Has(q, "sortOrder") THEN q.sortOrder ELSE "asc"

SortOrderOf(q) == IF Has(q, "sortOrder") THEN q.sortOrder ELSE "desc"

\* case folding of the $options: 'i' flag
Lower(c) == CASE c = "A" -> "a" [] c = "B" -> "b" [] c = "D" -> "d" [] OTHER -> c

\* the store rejects a pattern that is not a regular expression
\* (here: an unclosed group)
RegexValid(p) == \A i \in 1..Len(p) : p[i] # "("

\* pattern p matches text t at offset k; '.' matches any character
MatchAt(p, t, k) ==
    \A i \in 1..Len(p) : p[i] = "." \/ Lower(p[i]) = Lower(t[k + i - 1])

\* { $regex: p, $options: 'i' } against one string field
RegexSearch(p, t) == \E k \in 1..(Len(t) - Len(p) + 1) : MatchAt(p, t, k)

SearchMatches(doc, p) ==
    \/ RegexSearch(p, doc.title)
    \/ Has(doc, "description") /\ RegexSearch(p, doc.description)

Matches_anyOwner(doc, uid, q) ==
    /\ Has(q, "status") => doc.status = q.status
    /\ Has(q, "priority") => doc.priority = q.priority
    /\ SearchOf(q) # <<>> => SearchMatches(doc, SearchOf(q))

\* the filter object built from req.user.id and the query
Matches(doc, uid, q) ==
    /\ doc.user = uid
    /\ Has(q, "status") => doc.status = q.status
    /\ Has(q, "priority") => doc.priority = q.priority
    /\ SearchOf(q) # <<>> => SearchMatches(doc, SearchOf(q))

\* UTF-16 code units of the characters in use
CharCode(c) ==
    CASE c = " " -> 32 [] c = "(" -> 40 [] c = "." -> 46
      [] c = "A" -> 65 [] c = "B" -> 66 [] c = "D" -> 68
      [] c = "a" -> 97 [] c = "b" -> 98 [] c = "d" -> 100 [] c = "x" -> 120

RECURSIVE LexLeq(_, _)
LexLeq(s, t) ==
    IF s = <<>> THEN TRUE
    ELSE IF t = <<>> THEN FALSE
    ELSE IF CharCode(Head(s)) < CharCode(Head(t)) THEN TRUE
    ELSE IF CharCode(Head(s)) > CharCode(Head(t)) THEN FALSE
    ELSE LexLeq(Tail(s), Tail(t))

PriorityOrd_bySeverity(p) == CASE p = "low" -> 1 [] p = "medium" -> 2 [] p = "high" -> 3

\* binary string order of the priority values: "high" < "low" < "medium"
PriorityOrd(p) == CASE p = "high" -> 1 [] p = "low" -> 2 [] p = "medium" -> 3

\* a sorts no later than b under { [sortBy]: 1 }
SortLeq(a, b, sortBy) ==
    CASE sortBy = "createdAt" -> a.createdAt <= b.createdAt
      [] sortBy = "dueDate" -> DateOrd(a.dueDate) <= DateOrd(b.dueDate)
      [] sortBy = "priority" -> PriorityOrd(a.priority) <= PriorityOrd(b.priority)
      [] sortBy = "title" -> LexLeq(a.title, b.title)

Ordered(seq, sortBy, sortOrder) ==
    \A i, j \in 1..Len(seq) :
        i < j => IF sortOrder = "asc"
                 THEN SortLeq(seq[i], seq[j], sortBy)
                 ELSE SortLeq(seq[j], seq[i], sortBy)

\* Task.find(filter).sort(sort): every matching document once, in an order
\* the sort allows (the store does not fix the order of equal keys)
FindSorted(store, uid, q) ==
    LET ids == {i \in DOMAIN store : Matches(store[i], uid, q)}
        n == Cardinality(ids)
        perms == {f \in [1..n -> ids] : \A i, j \in 1..n : i # j => f[i] # f[j]}
    IN {r \in {[i \in 1..n |-> store[f[i]]] : f \in perms} :
            Ordered(r, SortByOf(q), SortOrderOf(q))}

----------------------------------------------------------------------------
(* Route handlers of routes/tasks.js; router.use(protect) runs first *)

ListTasks(h, q) ==
    LET req == [op |-> "list", header |-> h, query |-> q]
        auth == Protect(users, h)
    IN /\ IF ~auth.ok
          THEN last' = Rejected(req, auth)
          ELSE IF QueryErrors(q) # {}
          THEN last' = Handled(req, auth, ValidationFailed(QueryErrors(q)))
          ELSE IF ~RegexValid(SearchOf(q))
          THEN last' = Handled(req, auth, InternalError("Regular expression is invalid"))
          ELSE \E r \in FindSorted(tasks, auth.user.id, q) :
                  last' = Handled(req, auth,
                                  [status |-> 200, count |-> Len(r), tasks |-> r])
       /\ UNCHANGED <<users, tasks, nextId, createdBy, clientVars, proc, inflight>>

GetTask(h, id) ==
    LET req == [op |-> "get", header |-> h, id |-> id]
        auth == Protect(users, h)
    IN /\ IF ~auth.ok
          THEN last' = Rejected(req, auth)
          ELSE LET found == FindOne(tasks, id, auth.user.id) IN
               last' = Handled(req, auth,
                   CASE found.kind = "CastError" -> InvalidTaskId
                     [] found.kind = "null" -> TaskNotFound
                     [] found.kind = "doc" -> [status |-> 200, task |-> found.doc])
       /\ UNCHANGED <<users, tasks, nextId, createdBy, clientVars, proc, inflight>>

CreateTask(h, b) ==
    LET req == [op |-> "create", header |-> h, body |-> b]
        auth == Protect(users, h)
    IN IF ~auth.ok
       THEN /\ last' = Rejected(req, auth)
            /\ UNCHANGED <<users, tasks, nextId, createdBy, clientVars, proc, inflight>>
       ELSE IF PostErrors(b) # {}
       THEN /\ last' = Handled(req, auth, ValidationFailed(PostErrors(b)))
            /\ UNCHANGED <<users, tasks, nextId, createdBy, clientVars, proc, inflight>>
       ELSE /\ nextId <= MaxTasks
            /\ LET doc == SchemaCreate(TaskData(Sanitize(b), auth.user.id), nextId) IN
               /\ tasks' = Merge(tasks, [i \in {nextId} |-> doc])
               /\ last' = Handled(req, auth,
                      [status |-> 201, message |-> "Task created successfully",
                       task |-> doc])
            /\ createdBy' = Merge(createdBy, [i \in {nextId} |-> auth.user.id])
            /\ nextId' = nextId + 1
            /\ UNCHANGED <<users, clientVars, proc, inflight>>

UpdateTask(h, id, b) ==
    LET req == [op |-> "update", header |-> h, id |-> id, body |-> b]
        auth == Protect(users, h)
    IN /\ IF ~auth.ok
          THEN /\ last' = Rejected(req, auth)
               /\ UNCHANGED tasks
          ELSE IF PutErrors(b) # {}
          THEN /\ last' = Handled(req, auth, ValidationFailed(PutErrors(b)))
               /\ UNCHANGED tasks
          ELSE LET found == FindOne(tasks, id, auth.user.id) IN
               IF found.kind = "CastError"
               THEN /\ last' = Handled(req, auth, InvalidTaskId)
                    /\ UNCHANGED tasks
               ELSE IF found.kind = "null"
               THEN /\ last' = Handled(req, auth, TaskNotFound)
                    /\ UNCHANGED tasks
               ELSE /\ tasks' = FindByIdAndUpdate(tasks, id, Sanitize(b))
                    /\ last' = Handled(req, auth,
                           [status |-> 200, message |-> "Task updated successfully",
                            task |-> tasks'[id]])
       /\ UNCHANGED <<users, nextId, createdBy, clientVars, proc, inflight>>

DeleteTask(h, id) ==
    LET req == [op |-> "delete", header |-> h, id |-> id]
        auth == Protect(users, h)
    IN /\ IF ~auth.ok
          THEN /\ last' = Rejected(req, auth)
               /\ UNCHANGED tasks
          ELSE LET found == FindOne(tasks, id, auth.user.id) IN
               IF found.kind = "CastError"
               THEN /\ last' = Handled(req, auth, InvalidTaskId)
                    /\ UNCHANGED tasks
               ELSE IF found.kind = "null"
               THEN /\ last' = Handled(req, auth, TaskNotFound)
                    /\ UNCHANGED tasks
               ELSE /\ tasks' = FindByIdAndDelete(tasks, id)
                    /\ last' = Handled(req, auth,
                           [status |-> 200, message |-> "Task deleted successfully"])
       /\ UNCHANGED <<users, nextId, createdBy, clientVars, proc, inflight>>

----------------------------------------------------------------------------
(* Profile Service: routes/profile.js *)

\* validator isEmail() on the addresses in use
IsEmail(e) == e \in {"ann@x.com", "bob@x.com", "Bob@X.com", "cy@x.com"}

\* validator normalizeEmail(): lower-cases the address
NormalizeEmail(e) == IF e = "Bob@X.com" THEN "bob@x.com" ELSE e

ProfileErrors(b) ==
    {f \in {"name"} : Has(b, f) /\ (Trim(b[f]) = <<>> \/ Len(Trim(b[f])) > NameMax)}
    \cup {f \in {"email"} : Has(b, f) /\ ~IsEmail(b[f])}

SanitizeProfile(b) ==
    [k \in DOMAIN b |-> CASE k = "name" -> Trim(b[k])
                          [] k = "email" -> IF IsEmail(b[k]) THEN NormalizeEmail(b[k])
                                            ELSE b[k]
                          [] OTHER -> b[k]]

\* the user object that both profile routes put in the response
ProfileView(store, id) ==
    [id |-> id, name |-> store[id].name, email |-> store[id].email,
     avatar |-> store[id].avatar]

EmailTakenByOther_never(store, email, id) == FALSE

\* User.findOne({ email, _id: { $ne: id } })
EmailTakenByOther(store, email, id) ==
    \E u \in DOMAIN store : u # id /\ store[u].email = email

UpdateFields_resetsAvatar(b) ==
    Merge([avatar |-> ""], [k \in {f \in DOMAIN b : f \in {"name", "email", "avatar"}} |-> b[k]])

\* updateFields: name and email when truthy, avatar when not undefined
UpdateFields(b) ==
    [k \in {f \in DOMAIN b : f \in {"name", "email", "avatar"}} |-> b[k]]

GetProfile(h) ==
    LET req == [op |-> "getProfile", header |-> h]
        auth == Protect(users, h)
    IN /\ IF ~auth.ok
          THEN last' = Rejected(req, auth)
          ELSE IF auth.user.id \notin DOMAIN users
          THEN last' = Handled(req, auth, [status |-> 404, message |-> "User not found"])
          ELSE last' = Handled(req, auth,
                   [status |-> 200, user |-> ProfileView(users, auth.user.id)])
       /\ UNCHANGED <<users, tasks, nextId, createdBy, clientVars, proc, inflight>>

UpdateProfile(h, b) ==
    LET req == [op |-> "putProfile", header |-> h, body |-> b]
        auth == Protect(users, h)
    IN /\ IF ~auth.ok
          THEN /\ last' = Rejected(req, auth)
               /\ UNCHANGED users
          ELSE IF ProfileErrors(b) # {}
          THEN /\ last' = Handled(req, auth, ValidationFailed(ProfileErrors(b)))
               /\ UNCHANGED users
          ELSE LET sb == SanitizeProfile(b)
                   uid == auth.user.id
               IN IF Has(sb, "email") /\ EmailTakenByOther(users, sb.email, uid)
                  THEN /\ last' = Handled(req, auth,
                              [status |-> 400,
                               message |-> "Email is already taken by another user"])
                       /\ UNCHANGED users
                  ELSE IF uid \notin DOMAIN users
                  THEN /\ last' = Handled(req, auth,
                              InternalError("Cannot read properties of null"))
                       /\ UNCHANGED users
                  ELSE /\ users' = [users EXCEPT ![uid] = Merge(@, UpdateFields(sb))]
                       /\ last' = Handled(req, auth,
                              [status |-> 200,
                               message |-> "Profile updated successfully",
                               user |-> ProfileView(users', uid)])
       /\ UNCHANGED <<tasks, nextId, createdBy, clientVars, proc, inflight>>

----------------------------------------------------------------------------
(* Requests the environment sends *)

\* registered users; u3 holds a correctly signed token but has no record
GoodHeaders == {Bearer(ValidToken(u)) : u \in {"u1", "u2"}}

\* no Authorization header, "Bearer" without a token, a token that is not a
\* JWT, a JWT with a wrong signature, an expired JWT, a JWT of a user whose
\* record does not exist
BadHeaders ==
    { [scheme |-> "none"],
      [scheme |-> "Bearer"],
      Bearer(Token("u1", FALSE, FALSE, FALSE)),
      Bearer(Token("u1", TRUE, FALSE, FALSE)),
      Bearer(Token("u1", TRUE, TRUE, TRUE)),
      Bearer(ValidToken("u3")) }

LongTitle == Rep("x", TitleMax + 1)
LongDescription == Rep("x", DescriptionMax + 1)

B_min == [title |-> <<" ", "a", " ">>]
B_full ==
    [title |-> <<"b">>, description |-> <<"d", " ">>, status |-> "completed",
     priority |-> "high", dueDate |-> "2024-01-15", user |-> "u2"]
B_update ==
    [title |-> <<"b", " ">>, description |-> <<"d">>, status |-> "completed",
     priority |-> "high", dueDate |-> "2024-01-15T00:00:00.000Z"]
B_user == [user |-> "u2"]

ValidCreateBodies == {B_min, B_full}

ValidUpdateBodies == {B_update, B_user}

InvalidCreateBodies ==
    { [status |-> "completed"],
      [title |-> LongTitle],
      [title |-> <<" ">>],
      [title |-> <<"a">>, description |-> LongDescription],
      [title |-> <<"a">>, status |-> "done"],
      [title |-> <<"a">>, priority |-> "urgent"],
      [title |-> <<"a">>, dueDate |-> NULL] }

InvalidUpdateBodies ==
    { [title |-> LongTitle],
      [status |-> "done", user |-> "u2"] }

CreateBodies == ValidCreateBodies \cup InvalidCreateBodies

UpdateBodies == ValidUpdateBodies \cup InvalidUpdateBodies

Queries ==
    { EmptyObj,
      [status |-> "completed"],
      [status |-> "completed", priority |-> "medium"],
      [search |-> <<" ", "A">>],
      [status |-> "done"],
      [sortBy |-> "title", sortOrder |-> "asc"] }

\* 0 is the malformed id; MaxTasks ids can exist
ReqIds == 0..MaxTasks

P_name == [name |-> <<" ", "A">>]

----------------------------------------------------------------------------
(* Specifications *)

\* the filters the Dashboard starts with
DefaultFilters ==
    [status |-> "", priority |-> "", search |-> <<>>,
     sortBy |-> "createdAt", sortOrder |-> "desc"]

\* a process of server.js that is serving with its environment complete
ServingProc ==
    [entry |-> "server", secret |-> TRUE, nodeEnv |-> "production", phase |-> "serving"]

\* the collections, the browser and the handlers at start
InitExceptProc ==
    /\ users = [u \in {"u1", "u2"} |->
                  IF u = "u1"
                  THEN [name |-> <<"A">>, email |-> "ann@x.com",
                        password |-> "hash1", avatar |-> ""]
                  ELSE [name |-> <<"B">>, email |-> "bob@x.com",
                        password |-> "hash2", avatar |-> ""]]
    /\ tasks = EmptyObj
    /\ nextId = 1
    /\ createdBy = EmptyObj
    /\ last = [req |-> [op |-> "none"], resp |-> [status |-> 0],
               reached |-> FALSE, identity |-> NoIdentity]
    /\ localStorage = [token |-> JsNull, user |-> JsNull]
    /\ user = JsNull
    /\ loading = TRUE
    /\ pending = {}
    /\ event = [name |-> "none"]
    /\ dash = [filters |-> DefaultFilters, tasks |-> <<>>, loading |-> TRUE,
               pending |-> {}, sent |-> 0]
    /\ inflight = {}

Init == InitExceptProc /\ proc = ServingProc

\* the Task Service and the Task Query Engine under authenticated callers
Next ==
    \/ \E h \in GoodHeaders, q \in Queries : ListTasks(h, q)
    \/ \E h \in GoodHeaders, id \in ReqIds : GetTask(h, id)
    \/ \E h \in GoodHeaders, b \in CreateBodies : CreateTask(h, b)
    \/ \E h \in GoodHeaders, id \in ReqIds, b \in UpdateBodies : UpdateTask(h, id, b)
    \/ \E h \in GoodHeaders, id \in ReqIds : DeleteTask(h, id)

Spec == Init /\ [][Next]_vars

\* every protected route under every kind of Authorization header
NextGate ==
    \E h \in GoodHeaders \cup BadHeaders :
        \/ ListTasks(h, EmptyObj)
        \/ CreateTask(h, B_min)
        \/ GetProfile(h)
        \/ UpdateProfile(h, P_name)
        \/ \E id \in 1..MaxTasks :
              \/ GetTask(h, id)
              \/ UpdateTask(h, id, B_update)
              \/ DeleteTask(h, id)

SpecGate == Init /\ [][NextGate]_vars

\* bodies of PUT /api/profile: a name, addresses that are free, the caller's
\* own or another user's (also in upper case, and next to other fields), an
\* avatar, and bodies the field rules reject
ProfileBodies ==
    { EmptyObj,
      [name |-> <<" ", "Z">>],
      [avatar |-> "pic"],
      [email |-> "ann@x.com"],
      [email |-> "Bob@X.com"],
      [email |-> "cy@x.com"],
      [name |-> <<"Z">>, email |-> "bob@x.com", avatar |-> "pic"],
      [name |-> <<" ">>, email |-> "ann@x.com"],
      [email |-> "nope", avatar |-> "pic"] }

\* the Profile Service under authenticated callers
NextProfile ==
    \/ \E h \in GoodHeaders : GetProfile(h)
    \/ \E h \in GoodHeaders, b \in ProfileBodies : UpdateProfile(h, b)

SpecProfile == Init /\ [][NextProfile]_vars

----------------------------------------------------------------------------
(* Credential Service: POST /auth/login, POST /auth/register, GET /auth/me *)

\* bcrypt.compare on the passwords in use
PasswordMatches(pw, hash) ==
    <<pw, hash>> \in {<<"pw1", "hash1">>, <<"pw2", "hash2">>, <<"pw3", "hash3">>}

\* login: one generic failure for an unknown address and a wrong password
AuthLogin(store, b) ==
    LET hit == {u \in DOMAIN store :
                   store[u].email = b.email /\ PasswordMatches(b.password, store[u].password)}
    IN IF hit = {}
       THEN [status |-> 401, message |-> "Invalid credentials"]
       ELSE LET u == CHOOSE x \in hit : TRUE
            IN [status |-> 200, token |-> ValidToken(u), user |-> ProfileView(store, u)]

\* the record a registration stores; the new user gets the id u3
RegisteredUser(b) ==
    [name |-> Trim(b.name), email |-> b.email, password |-> "hash3", avatar |-> ""]

RegisteredStore(store, b) ==
    [u \in DOMAIN store \cup {"u3"} |-> IF u = "u3" THEN RegisteredUser(b) ELSE store[u]]

\* register: DuplicateEmail when the address exists, else the new user and a token
AuthRegister(store, b) ==
    IF \E u \in DOMAIN store : store[u].email = b.email
    THEN [status |-> 400, message |-> "User already exists"]
    ELSE [status |-> 201, token |-> ValidToken("u3"),
          user |-> ProfileView(RegisteredStore(store, b), "u3")]

\* GET /auth/me behind the auth gate: the user the token names
AuthMe(store, h) ==
    LET auth == Protect(store, h)
    IN IF ~auth.ok THEN auth.resp
       ELSE [status |-> 200, user |-> ProfileView(store, auth.user.id)]

\* the request failed without a response (network error, timeout)
NetworkError == [status |-> 0]

----------------------------------------------------------------------------
(* Client Session: AuthProvider *)

JsonStringify(v) == [json |-> v]

JsonParse(s) == s.json

\* the request interceptor of the api client: the stored token as bearer
AttachToken(storage) ==
    IF storage.token = JsNull THEN [scheme |-> "none"] ELSE Bearer(storage.token)

RemoveItems_keepToken(storage, keys) ==
    [k \in DOMAIN storage |-> IF k \in keys \ {"token"} THEN JsNull ELSE storage[k]]

\* localStorage.removeItem for each key
RemoveItems(storage, keys) ==
    [k \in DOMAIN storage |-> IF k \in keys THEN JsNull ELSE storage[k]]

\* logout(): both items removed, setUser(null)
LogoutEffect ==
    /\ localStorage' = RemoveItems(localStorage, {"token", "user"})
    /\ user' = JsNull

\* the mount effect of AuthProvider with the synchronous part of verifyToken
MountEffect ==
    /\ loading
    /\ IF localStorage.token # JsNull /\ localStorage.user # JsNull
       THEN /\ user' = JsonParse(localStorage.user)
            /\ pending' = pending \cup {[kind |-> "me", header |-> AttachToken(localStorage)]}
       ELSE UNCHANGED <<user, pending>>
    /\ loading' = FALSE
    /\ event' = [name |-> "mount"]
    /\ UNCHANGED <<localStorage, serverVars, dash>>

\* verifyToken after its await: the response of GET /auth/me, or its failure
VerifyTokenResponse(r, resp) ==
    /\ r \in pending /\ r.kind = "me"
    /\ resp \in {AuthMe(users, r.header), NetworkError}
    /\ IF resp.status = 200
       THEN /\ user' = resp.user
            /\ localStorage' = [localStorage EXCEPT !.user = JsonStringify(resp.user)]
       ELSE LogoutEffect
    /\ pending' = pending \ {r}
    /\ event' = [name |-> "meResponse", resp |-> resp]
    /\ UNCHANGED <<loading, serverVars, dash>>

\* login() up to its await; the Login page leaves when the session is authenticated
LoginSend(b) ==
    /\ ~loading /\ user = JsNull
    /\ Cardinality({r \in pending : r.kind # "me"}) < MaxPending
    /\ pending' = pending \cup {[kind |-> "login", body |-> b]}
    /\ event' = [name |-> "loginSend"]
    /\ UNCHANGED <<localStorage, user, loading, serverVars, dash>>

\* what login() and register() do with a response that carries a token
SignIn(resp) ==
    /\ localStorage' = [token |-> resp.token, user |-> JsonStringify(resp.user)]
    /\ user' = resp.user

LoginResponse(r, resp) ==
    /\ r \in pending /\ r.kind = "login"
    /\ resp \in {AuthLogin(users, r.body), NetworkError}
    /\ IF resp.status = 200 THEN SignIn(resp) ELSE UNCHANGED <<localStorage, user>>
    /\ pending' = pending \ {r}
    /\ event' = [name |-> "loginResponse", resp |-> resp]
    /\ UNCHANGED <<loading, serverVars, dash>>

RegisterSend(b) ==
    /\ ~loading /\ user = JsNull
    /\ Cardinality({r \in pending : r.kind # "me"}) < MaxPending
    /\ pending' = pending \cup {[kind |-> "register", body |-> b]}
    /\ event' = [name |-> "registerSend"]
    /\ UNCHANGED <<localStorage, user, loading, serverVars, dash>>

RegisterResponse(r, resp) ==
    /\ r \in pending /\ r.kind = "register"
    /\ resp \in {AuthRegister(users, r.body), NetworkError}
    /\ IF resp.status = 201
       THEN /\ SignIn(resp)
            /\ users' = RegisteredStore(users, r.body)
       ELSE UNCHANGED <<localStorage, user, users>>
    /\ pending' = pending \ {r}
    /\ event' = [name |-> "registerResponse", resp |-> resp]
    /\ UNCHANGED <<loading, tasks, nextId, createdBy, last, proc, inflight, dash>>

\* logout() from the Dashboard, which shows for an authenticated session
Logout ==
    /\ ~loading /\ user # JsNull
    /\ LogoutEffect
    /\ event' = [name |-> "logout"]
    /\ UNCHANGED <<loading, pending, serverVars, dash>>

\* updateUser(userData) with the record the server holds for the signed-in user
UpdateUser ==
    /\ ~loading /\ user # JsNull
    /\ user' = ProfileView(users, user.id)
    /\ localStorage' = [localStorage EXCEPT !.user = JsonStringify(user')]
    /\ event' = [name |-> "updateUser"]
    /\ UNCHANGED <<loading, pending, serverVars, dash>>

\* the page is loaded again: the provider starts over, the storage stays and
\* the responses of the old page reach nobody
Reload ==
    /\ ~loading
    /\ user' = JsNull
    /\ loading' = TRUE
    /\ pending' = {}
    /\ event' = [name |-> "reload"]
    /\ UNCHANGED <<localStorage, serverVars, dash>>

LoginBodies ==
    { [email |-> "ann@x.com", password |-> "pw1"],
      [email |-> "bob@x.com", password |-> "pw2"],
      [email |-> "ann@x.com", password |-> "pw2"] }

RegisterBodies == { [name |-> <<"C">>, email |-> "cy@x.com", password |-> "pw3"] }

\* the responses a request in flight can get
Responses ==
    {AuthMe(users, h) : h \in {r.header : r \in {x \in pending : x.kind = "me"}}}
    \cup {AuthLogin(users, b) : b \in LoginBodies}
    \cup {AuthRegister(users, b) : b \in RegisterBodies}
    \cup {NetworkError}

\* the Client Session against the Credential Service, with the signed-in
\* user's name also changed from another device
NextClient ==
    \/ MountEffect
    \/ \E r \in pending, resp \in Responses : VerifyTokenResponse(r, resp)
    \/ \E b \in LoginBodies : LoginSend(b)
    \/ \E r \in pending, resp \in Responses : LoginResponse(r, resp)
    \/ \E b \in RegisterBodies : RegisterSend(b)
    \/ \E r \in pending, resp \in Responses : RegisterResponse(r, resp)
    \/ Logout
    \/ UpdateUser
    \/ Reload
    \/ UpdateProfile(Bearer(ValidToken("u1")), [name |-> <<"Z">>])

SpecClient == Init /\ [][NextClient]_vars

----------------------------------------------------------------------------
(* Dashboard: the list request it builds from its filters *)

\* the options of the sort select: label -> value split at '-'
SortOptions ==
    [ l \in {"Newest First", "Oldest First", "Due Date (Earliest)", "Due Date (Latest)",
             "Priority (High to Low)", "Priority (Low to High)",
             "Title (A-Z)", "Title (Z-A)"} |->
        CASE l = "Newest First" -> <<"createdAt", "desc">>
          [] l = "Oldest First" -> <<"createdAt", "asc">>
          [] l = "Due Date (Earliest)" -> <<"dueDate", "asc">>
          [] l = "Due Date (Latest)" -> <<"dueDate", "desc">>
          [] l = "Priority (High to Low)" -> <<"priority", "desc">>
          [] l = "Priority (Low to High)" -> <<"priority", "asc">>
          [] l = "Title (A-Z)" -> <<"title", "asc">>
          [] l = "Title (Z-A)" -> <<"title", "desc">> ]

HandleFilterChange(filters, key, value) == [filters EXCEPT ![key] = value]

\* onChange of the sort select
SelectSort(filters, label) ==
    HandleFilterChange(HandleFilterChange(filters, "sortBy", SortOptions[label][1]),
                       "sortOrder", SortOptions[label][2])

\* the URLSearchParams of fetchTasks: the filters that are set, and the sort
FetchParams(filters) ==
    [k \in {f \in {"status", "priority"} : filters[f] # ""}
           \cup {f \in {"search"} : filters[f] # <<>>}
           \cup {"sortBy", "sortOrder"} |-> filters[k]]

----------------------------------------------------------------------------
(* The Task Query Engine over tasks of every priority *)

Q_low == [title |-> <<"a", ".">>, priority |-> "low", dueDate |-> "2024-01-15"]
Q_medium == [title |-> <<"a", "b">>]
Q_high ==
    [title |-> <<"b">>, description |-> <<"A", ".">>, priority |-> "high",
     dueDate |-> "2024-02-01T00:00:00.000Z"]

QueryBodies == {Q_low, Q_medium, Q_high}

\* the sort parameters alone and in part, and the requests of the Dashboard
SortQueries ==
    { EmptyObj, [sortBy |-> "priority"], [sortOrder |-> "asc"],
      [sortBy |-> "nope"], [sortBy |-> "title", sortOrder |-> "up"] }
    \cup {FetchParams(SelectSort(DefaultFilters, l)) : l \in DOMAIN SortOptions}

\* search strings: plain, padded, with '.' and with '('
SearchQueries ==
    { [search |-> s] :
        s \in { <<"A">>, <<" ", "b">>, <<".">>, <<"a", ".">>, <<"(">>, <<" ">> } }
    \cup { FetchParams(HandleFilterChange(DefaultFilters, "search", <<"b", ".">>)) }

NextQuery ==
    \/ \E h \in GoodHeaders, b \in QueryBodies : CreateTask(h, b)
    \/ \E h \in GoodHeaders, q \in SortQueries \cup SearchQueries : ListTasks(h, q)

SpecQuery == Init /\ [][NextQuery]_vars

----------------------------------------------------------------------------
(* Failures that reach the error-handling middleware of the app *)

\* errors the routes pass to next(), and errors of the body parser, which
\* carry a status of their own
Errors ==
    { [name |-> "MongoServerError", stack |-> "at model.Query",
       message |-> "Regular expression is invalid: missing closing parenthesis"],
      [name |-> "MongoNetworkError", stack |-> "at connectionFailureError",
       message |-> "connect ECONNREFUSED 127.0.0.1:27017"],
      [name |-> "MongoServerError", stack |-> "at model.Query",
       message |-> "E11000 duplicate key error collection: users index: email_1"],
      [name |-> "TypeError", stack |-> "at profile.js",
       message |-> "Cannot read properties of null (reading '_id')"],
      [name |-> "Error", stack |-> "at tasks.js", message |-> ""],
      [name |-> "Error", stack |-> "at tasks.js"],
      [name |-> "SyntaxError", stack |-> "at JSON.parse", status |-> 400,
       message |-> "Unexpected end of JSON input"],
      [name |-> "PayloadTooLargeError", stack |-> "at readStream", status |-> 413,
       message |-> "request entity too large"] }

NodeEnvs == {"development", "production", "undefined"}

\* the operations whose handlers end in next(error)
FailingOps == {"list", "get", "create", "update", "delete", "getProfile", "putProfile"}

\* a request ends in the error-handling middleware with err
RouteFails(op, err, nodeEnv) ==
    /\ last' = [req |-> [op |-> op, error |-> err, env |-> nodeEnv],
                resp |-> ErrorHandler(err, nodeEnv),
                reached |-> TRUE, identity |-> NoIdentity]
    /\ UNCHANGED <<users, tasks, nextId, createdBy, clientVars, proc, inflight>>

NextError == \E op \in FailingOps, err \in Errors, e \in NodeEnvs : RouteFails(op, err, e)

SpecError == Init /\ [][NextError]_vars

----------------------------------------------------------------------------
(* Routing of the app: the mounted routers, the health route, the 404 handler *)

Methods == {"GET", "POST", "PUT", "DELETE", "PATCH"}

\* request paths as the segments after /api
RoutePaths ==
    { <<>>, <<"health">>, <<"nope">>,
      <<"tasks">>, <<"tasks", "1">>, <<"tasks", "zz">>, <<"tasks", "1", "comments">>,
      <<"profile">>, <<"profile", "password">> }

\* no header, a tampered token, the token of a registered user
RouteHeaders ==
    { [scheme |-> "none"], Bearer(Token("u1", TRUE, FALSE, FALSE)), Bearer(ValidToken("u1")) }

\* app.use('/api/profile', ...) and app.use('/api/tasks', ...)
Mount(path) ==
    IF path # <<>> /\ path[1] \in {"profile", "tasks"} THEN path[1] ELSE "app"

\* the route of the router or of the app that method and path select
RouteOf(method, path) ==
    LET sub == IF path = <<>> THEN <<>> ELSE Tail(path) IN
    CASE Mount(path) = "tasks" /\ sub = <<>> /\ method = "GET" -> "list"
      [] Mount(path) = "tasks" /\ sub = <<>> /\ method = "POST" -> "create"
      [] Mount(path) = "tasks" /\ Len(sub) = 1 /\ method = "GET" -> "get"
      [] Mount(path) = "tasks" /\ Len(sub) = 1 /\ method = "PUT" -> "update"
      [] Mount(path) = "tasks" /\ Len(sub) = 1 /\ method = "DELETE" -> "delete"
      [] Mount(path) = "profile" /\ sub = <<>> /\ method = "GET" -> "getProfile"
      [] Mount(path) = "profile" /\ sub = <<>> /\ method = "PUT" -> "putProfile"
      [] path = <<"health">> /\ method = "GET" -> "health"
      [] OTHER -> "none"

\* req.params.id as an ObjectId of the store; 0 when it is not an ObjectId
ParamId(seg) == CASE seg = "1" -> 1 [] seg = "2" -> 2 [] seg = "3" -> 3 [] OTHER -> 0

RouteNotFound == [status |-> 404, message |-> "Route not found"]

Unrouted_gateLast(store, mount, h) == RouteNotFound

\* a request that no route takes: below a router with router.use(protect)
\* the gate answers first, and what passes falls through to the 404 handler
Unrouted(store, mount, h) ==
    IF mount \in {"profile", "tasks"} /\ ~Protect(store, h).ok
    THEN Protect(store, h).resp
    ELSE RouteNotFound

Dispatch(method, path, h) ==
    LET route == RouteOf(method, path) IN
    CASE route = "list" -> ListTasks(h, EmptyObj)
      [] route = "create" -> CreateTask(h, B_min)
      [] route = "get" -> GetTask(h, ParamId(path[2]))
      [] route = "update" -> UpdateTask(h, ParamId(path[2]), B_update)
      [] route = "delete" -> DeleteTask(h, ParamId(path[2]))
      [] route = "getProfile" -> GetProfile(h)
      [] route = "putProfile" -> UpdateProfile(h, P_name)
      [] route = "health" ->
            /\ last' = [req |-> [op |-> "health", header |-> h],
                        resp |-> [status |-> 200, message |-> "Server is running"],
                        reached |-> TRUE, identity |-> NoIdentity]
            /\ UNCHANGED <<users, tasks, nextId, createdBy, clientVars, proc, inflight>>
      [] OTHER ->
            /\ last' = [req |-> [op |-> "unrouted", method |-> method, path |-> path,
                                 header |-> h],
                        resp |-> Unrouted(users, Mount(path), h),
                        reached |-> FALSE, identity |-> NoIdentity]
            /\ UNCHANGED <<users, tasks, nextId, createdBy, clientVars, proc, inflight>>

NextRoutes ==
    \E method \in Methods, path \in RoutePaths, h \in RouteHeaders : Dispatch(method, path, h)

SpecRoutes == Init /\ [][NextRoutes]_vars

----------------------------------------------------------------------------
(* Start-up of the two entry points and the signing secret *)

\* server.js and the serverless function of api/index.js
EntryPoints == {"server", "serverless"}

\* server.js exits when JWT_SECRET is missing; api/index.js has no such check
StartProcess ==
    /\ proc.phase = "starting"
    /\ proc' = [proc EXCEPT !.phase = IF proc.entry = "server" /\ ~proc.secret
                                      THEN "exited" ELSE "serving"]
    /\ UNCHANGED <<users, tasks, nextId, createdBy, last, inflight, clientVars>>

\* protect when process.env.JWT_SECRET may be undefined: jwt.verify throws
\* and the inner catch answers 401
ProtectEnv(store, h, secret) ==
    IF ExtractToken(h).found /\ ~secret
    THEN Unauthorized("Invalid token. Please login again.")
    ELSE Protect(store, h)

\* generateToken(id)
GenerateToken(id, secret) ==
    IF ~secret
    THEN [ok |-> FALSE,
          error |-> [name |-> "Error", stack |-> "at generateToken",
                     message |-> "JWT_SECRET is not configured. Please set it in your .env file."]]
    ELSE [ok |-> TRUE, token |-> ValidToken(id)]

\* GET /api/profile as the running process serves it
ServeProfile(h) ==
    LET req == [op |-> "getProfile", header |-> h]
        auth == ProtectEnv(users, h, proc.secret)
    IN /\ proc.phase = "serving"
       /\ IF ~auth.ok
          THEN last' = Rejected(req, auth)
          ELSE last' = Handled(req, auth,
                   [status |-> 200, user |-> ProfileView(users, auth.user.id)])
       /\ UNCHANGED <<users, tasks, nextId, createdBy, proc, inflight, clientVars>>

\* POST /api/auth/login as the running process serves it: the token is
\* issued by generateToken, whose error ends in the error handler
ServeLogin(b) ==
    LET req == [op |-> "login", body |-> b]
        found == AuthLogin(users, b)
        issued == GenerateToken(IF found.status = 200 THEN found.token.id ELSE "none",
                                proc.secret)
    IN /\ proc.phase = "serving"
       /\ last' = [req |-> req,
                   resp |-> IF found.status = 200 /\ ~issued.ok
                            THEN ErrorHandler(issued.error, proc.nodeEnv)
                            ELSE found,
                   reached |-> TRUE, identity |-> NoIdentity]
       /\ UNCHANGED <<users, tasks, nextId, createdBy, proc, inflight, clientVars>>

InitStartup ==
    /\ InitExceptProc
    /\ proc \in [entry : EntryPoints, secret : BOOLEAN, nodeEnv : NodeEnvs,
                 phase : {"starting"}]

NextStartup ==
    \/ StartProcess
    \/ \E h \in GoodHeaders \cup BadHeaders : ServeProfile(h)
    \/ \E b \in LoginBodies : ServeLogin(b)

SpecStartup == InitStartup /\ [][NextStartup]_vars

----------------------------------------------------------------------------
(* PUT /api/profile as the two store calls it makes, with other requests
   running between them *)

\* the unique index on email refuses a write that would repeat an address
UniqueEmailViolated(store, uid, fields) ==
    /\ Has(fields, "email")
    /\ \E u \in DOMAIN store \ {uid} : store[u].email = fields.email

DuplicateKeyMessage == "E11000 duplicate key error collection: users index: email_1"

\* the handler up to the await of User.findOne: gate, field rules, e-mail check
ProfileBegin(h, b) ==
    LET req == [op |-> "putProfile", header |-> h, body |-> b]
        auth == Protect(users, h)
    IN /\ IF ~auth.ok
          THEN /\ last' = Rejected(req, auth)
               /\ UNCHANGED inflight
          ELSE IF ProfileErrors(b) # {}
          THEN /\ last' = Handled(req, auth, ValidationFailed(ProfileErrors(b)))
               /\ UNCHANGED inflight
          ELSE LET sb == SanitizeProfile(b) IN
               IF Has(sb, "email") /\ EmailTakenByOther(users, sb.email, auth.user.id)
               THEN /\ last' = Handled(req, auth,
                           [status |-> 400,
                            message |-> "Email is already taken by another user"])
                    /\ UNCHANGED inflight
               ELSE /\ Cardinality(inflight) < MaxInflight
                    /\ inflight' = inflight \cup
                          {[req |-> req, auth |-> auth, fields |-> UpdateFields(sb)]}
                    /\ UNCHANGED last
       /\ UNCHANGED <<users, tasks, nextId, createdBy, proc, clientVars>>

\* User.findByIdAndUpdate and the response; an error of the store goes to next()
ProfileWrite(r) ==
    /\ r \in inflight /\ r.req.op = "putProfile"
    /\ LET uid == r.auth.user.id IN
       IF UniqueEmailViolated(users, uid, r.fields)
       THEN /\ last' = Handled(r.req, r.auth, InternalError(DuplicateKeyMessage))
            /\ UNCHANGED users
       ELSE /\ users' = [users EXCEPT ![uid] = Merge(@, r.fields)]
            /\ last' = Handled(r.req, r.auth,
                   [status |-> 200, message |-> "Profile updated successfully",
                    user |-> ProfileView(users', uid)])
    /\ inflight' = inflight \ {r}
    /\ UNCHANGED <<tasks, nextId, createdBy, proc, clientVars>>

RaceProfileBodies ==
    { [email |-> "cy@x.com"], [email |-> "ann@x.com"], [name |-> <<"Z">>] }

NextProfileRace ==
    \/ \E h \in GoodHeaders, b \in RaceProfileBodies : ProfileBegin(h, b)
    \/ \E r \in inflight : ProfileWrite(r)

SpecProfileRace == Init /\ [][NextProfileRace]_vars

----------------------------------------------------------------------------
(* The auth gate while the store cannot be reached *)

\* protect when User.findById may throw: the lookup is inside the inner
\* try, whose catch answers 401
ProtectStore(store, h, storeUp) ==
    IF ExtractToken(h).found /\ JwtVerify(ExtractToken(h).token).ok /\ ~storeUp
    THEN Unauthorized("Invalid token. Please login again.")
    ELSE Protect(store, h)

\* a request to a protected route that arrives while the store is down
GateWhileStoreDown(op, h) ==
    /\ last' = Rejected([op |-> op, header |-> h, storeDown |-> TRUE],
                        ProtectStore(users, h, FALSE))
    /\ UNCHANGED <<users, tasks, nextId, createdBy, proc, inflight, clientVars>>

NextGateDown ==
    \/ \E h \in GoodHeaders \cup BadHeaders :
          \/ GetProfile(h)
          \/ ListTasks(h, EmptyObj)
          \/ CreateTask(h, B_min)
    \/ \E op \in FailingOps, h \in GoodHeaders \cup BadHeaders : GateWhileStoreDown(op, h)

SpecGateDown == Init /\ [][NextGateDown]_vars

----------------------------------------------------------------------------
(* TaskForm: the bodies the form submits *)

\* validate() of the form
FormValid(formData) ==
    /\ Trim(formData.title) # <<>>
    /\ Len(formData.title) <= TitleMax
    /\ Len(formData.description) <= DescriptionMax

\* submitData: the form's fields, with dueDate null when the field is empty
SubmitData(formData) ==
    [formData EXCEPT !.dueDate = IF formData.dueDate = "" THEN NULL ELSE formData.dueDate]

\* the form as it opens, with a title typed in
F_new ==
    [title |-> <<"a">>, description |-> <<>>, status |-> "todo",
     priority |-> "medium", dueDate |-> ""]

F_edit ==
    [title |-> <<"b", " ">>, description |-> <<"d">>, status |-> "completed",
     priority |-> "high", dueDate |-> ""]

\* the forms with and without a due date picked, and one that validate() stops
FormInputs ==
    { F_new, [F_new EXCEPT !.dueDate = "2024-01-15"],
      F_edit, [F_edit EXCEPT !.dueDate = "2024-01-15"],
      [F_new EXCEPT !.title = <<" ">>] }

\* handleSubmit of a form without a task, then POST /api/tasks
FormCreate(h, formData) ==
    /\ FormValid(formData)
    /\ CreateTask(h, SubmitData(formData))

\* handleSubmit of a form opened on a task, then PUT /api/tasks/:id
FormUpdate(h, id, formData) ==
    /\ FormValid(formData)
    /\ UpdateTask(h, id, SubmitData(formData))

NextForm ==
    \/ \E h \in GoodHeaders, f \in FormInputs : FormCreate(h, f)
    \/ \E h \in GoodHeaders, id \in 1..MaxTasks, f \in FormInputs : FormUpdate(h, id, f)

SpecForm == Init /\ [][NextForm]_vars

----------------------------------------------------------------------------
(* Task routes as the two store calls they make: overlapping requests *)

\* PUT /api/tasks/:id up to the await of Task.findOne and its 404
UpdateBegin(h, id, b) ==
    LET req == [op |-> "update", header |-> h, id |-> id, body |-> b]
        auth == Protect(users, h)
    IN /\ IF ~auth.ok
          THEN /\ last' = Rejected(req, auth)
               /\ UNCHANGED inflight
          ELSE IF PutErrors(b) # {}
          THEN /\ last' = Handled(req, auth, ValidationFailed(PutErrors(b)))
               /\ UNCHANGED inflight
          ELSE LET found == FindOne(tasks, id, auth.user.id) IN
               IF found.kind = "CastError"
               THEN /\ last' = Handled(req, auth, InvalidTaskId)
                    /\ UNCHANGED inflight
               ELSE IF found.kind = "null"
               THEN /\ last' = Handled(req, auth, TaskNotFound)
                    /\ UNCHANGED inflight
               ELSE /\ Cardinality(inflight) < MaxInflight
                    /\ inflight' = inflight \cup
                          {[req |-> req, auth |-> auth, task |-> found.doc,
                            update |-> Sanitize(b)]}
                    /\ UNCHANGED last
       /\ UNCHANGED <<users, tasks, nextId, createdBy, proc, clientVars>>

\* Task.findByIdAndUpdate and the response: the call answers null when no
\* document has the id
UpdateWrite(r) ==
    /\ r \in inflight /\ r.req.op = "update"
    /\ tasks' = FindByIdAndUpdate(tasks, r.req.id, r.update)
    /\ last' = Handled(r.req, r.auth,
           [status |-> 200, message |-> "Task updated successfully",
            task |-> IF r.req.id \in DOMAIN tasks THEN tasks'[r.req.id] ELSE JsNull])
    /\ inflight' = inflight \ {r}
    /\ UNCHANGED <<users, nextId, createdBy, proc, clientVars>>

\* DELETE /api/tasks/:id up to the await of Task.findOne and its 404
DeleteBegin(h, id) ==
    LET req == [op |-> "delete", header |-> h, id |-> id]
        auth == Protect(users, h)
    IN /\ IF ~auth.ok
          THEN /\ last' = Rejected(req, auth)
               /\ UNCHANGED inflight
          ELSE LET found == FindOne(tasks, id, auth.user.id) IN
               IF found.kind = "CastError"
               THEN /\ last' = Handled(req, auth, InvalidTaskId)
                    /\ UNCHANGED inflight
               ELSE IF found.kind = "null"
               THEN /\ last' = Handled(req, auth, TaskNotFound)
                    /\ UNCHANGED inflight
               ELSE /\ Cardinality(inflight) < MaxInflight
                    /\ inflight' = inflight \cup
                          {[req |-> req, auth |-> auth, task |-> found.doc]}
                    /\ UNCHANGED last
       /\ UNCHANGED <<users, tasks, nextId, createdBy, proc, clientVars>>

\* Task.findByIdAndDelete, whose result is not looked at, and the response
DeleteWrite(r) ==
    /\ r \in inflight /\ r.req.op = "delete"
    /\ tasks' = FindByIdAndDelete(tasks, r.req.id)
    /\ last' = Handled(r.req, r.auth,
           [status |-> 200, message |-> "Task deleted successfully"])
    /\ inflight' = inflight \ {r}
    /\ UNCHANGED <<users, nextId, createdBy, proc, clientVars>>

\* updates of single fields, of two fields, and of the owner
RaceUpdateBodies ==
    { [title |-> <<"b", " ">>], [title |-> <<"c">>, status |-> "completed"], B_user }

NextUpdateRace ==
    \/ \E h \in GoodHeaders : CreateTask(h, B_min)
    \/ \E h \in GoodHeaders, b \in RaceUpdateBodies : UpdateBegin(h, 1, b)
    \/ \E r \in inflight : UpdateWrite(r)

SpecUpdateRace == Init /\ [][NextUpdateRace]_vars

NextTaskRace ==
    \/ \E h \in GoodHeaders : CreateTask(h, B_min)
    \/ \E h \in GoodHeaders, id \in 1..MaxTasks, b \in {[status |-> "completed"], B_user} :
          UpdateBegin(h, id, b)
    \/ \E r \in inflight : UpdateWrite(r)
    \/ \E h \in GoodHeaders, id \in 1..MaxTasks : DeleteBegin(h, id)
    \/ \E r \in inflight : DeleteWrite(r)

SpecTaskRace == Init /\ [][NextTaskRace]_vars

----------------------------------------------------------------------------
(* Dashboard: the task list and its list requests *)

\* the request interceptor attaches the token of the signed-in user
DashHeader == Bearer(ValidToken("u1"))

\* fetchTasks up to its await: setLoading(true) and GET /tasks with the
\* parameters of the filters it was called with
FetchTasks(d, filters) ==
    [d EXCEPT !.filters = filters,
              !.loading = TRUE,
              !.sent = d.sent + 1,
              !.pending = d.pending \cup
                  {[seq |-> d.sent + 1, header |-> DashHeader,
                    query |-> FetchParams(filters)]}]

\* useEffect(() => { fetchTasks() }, [filters]) when the page mounts
DashMount ==
    /\ dash.sent = 0
    /\ dash' = FetchTasks(dash, dash.filters)
    /\ UNCHANGED <<serverVars, sessionVars>>

\* handleFilterChange, and the effect that the new filters object triggers
DashFilterChange(key, value) ==
    /\ dash.sent > 0 /\ dash.sent < MaxFetches
    /\ dash' = FetchTasks(dash, HandleFilterChange(dash.filters, key, value))
    /\ UNCHANGED <<serverVars, sessionVars>>

\* onChange of the sort select, and the effect
DashSelectSort(label) ==
    /\ dash.sent > 0 /\ dash.sent < MaxFetches
    /\ dash' = FetchTasks(dash, SelectSort(dash.filters, label))
    /\ UNCHANGED <<serverVars, sessionVars>>

\* GET /tasks is served and fetchTasks continues after its await:
\* setTasks(response.data.tasks), or the catch that only logs; then
\* setLoading(false)
DashResponse(r) ==
    /\ r \in dash.pending
    /\ LET auth == Protect(users, r.header)
           ok == auth.ok /\ QueryErrors(r.query) = {} /\ RegexValid(SearchOf(r.query))
       IN IF ok
          THEN \E answer \in FindSorted(tasks, auth.user.id, r.query) :
                  dash' = [dash EXCEPT !.tasks = answer, !.loading = FALSE,
                                       !.pending = dash.pending \ {r}]
          ELSE dash' = [dash EXCEPT !.loading = FALSE, !.pending = dash.pending \ {r}]
    /\ UNCHANGED <<serverVars, sessionVars>>

\* options of the status and priority selects
FilterChoices ==
    { <<"status", "completed">>, <<"status", "">>,
      <<"priority", "high">>, <<"priority", "">> }

\* the Dashboard of a signed-in user over the tasks created before it opened
NextDash ==
    \/ \E h \in GoodHeaders, b \in {Q_low, Q_high} : dash.sent = 0 /\ CreateTask(h, b)
    \/ DashMount
    \/ \E c \in FilterChoices : DashFilterChange(c[1], c[2])
    \/ \E label \in {"Oldest First", "Newest First"} : DashSelectSort(label)
    \/ \E r \in dash.pending : DashResponse(r)

SpecDash == Init /\ [][NextDash]_vars

----------------------------------------------------------------------------
(* Properties *)

\* the identity a correctly signed, unexpired token names
CallerOf(l) == l.req.header.token.id

IsOp(l, ops) == l.req.op \in ops

\* ids of the tasks a list response carries
ResultIds(l) == {l.resp.tasks[i]._id : i \in 1..Len(l.resp.tasks)}

\* C1: after any sequence of create, update and delete requests every stored
\* task is owned by the user who created it; no PUT /tasks/:id changes the
\* owner, whatever its body carries
C1_OwnerIsCreator ==
    \A id \in DOMAIN tasks : tasks[id].user = createdBy[id]

\* C2 (as stated): a list response carries only the caller's tasks, and
\* when status=S is given it is exactly the caller's tasks of status S,
\* for every combination of the other parameters
C2_StatusResultExact ==
    (IsOp(last, {"list"}) /\ last.resp.status = 200) =>
        LET U == CallerOf(last)
            q == last.req.query
        IN /\ \A i \in 1..Len(last.resp.tasks) : last.resp.tasks[i].user = U
           /\ Has(q, "status") =>
                ResultIds(last) =
                    {id \in DOMAIN tasks :
                        tasks[id].user = U /\ tasks[id].status = q.status}

\* C2 (amended): a list response carries only stored tasks of the caller,
\* each once; when status=S is given it is exactly the caller's tasks of
\* status S that also pass the priority and search filters of the request
C2_OwnedAndFiltered ==
    (IsOp(last, {"list"}) /\ last.resp.status = 200) =>
        LET U == CallerOf(last)
            q == last.req.query
            r == last.resp.tasks
        IN /\ \A i \in 1..Len(r) :
                /\ r[i].user = U
                /\ r[i]._id \in DOMAIN tasks
                /\ r[i] = tasks[r[i]._id]
           /\ Cardinality(ResultIds(last)) = Len(r)
           /\ last.resp.count = Len(r)
           /\ Has(q, "status") =>
                ResultIds(last) =
                    {id \in DOMAIN tasks :
                        /\ tasks[id].user = U
                        /\ tasks[id].status = q.status
                        /\ Has(q, "priority") => tasks[id].priority = q.priority
                        /\ SearchOf(q) # <<>> =>
                              SearchMatches(tasks[id], SearchOf(q))}

\* a status-filtered list that returned something while another user holds
\* a task of the same status
C2_Witness ==
    /\ IsOp(last, {"list"})
    /\ last.resp.status = 200
    /\ Has(last.req.query, "status")
    /\ last.resp.tasks # <<>>
    /\ \E id \in DOMAIN tasks :
          /\ tasks[id].user # CallerOf(last)
          /\ tasks[id].status = last.req.query.status

\* the request l is an update or delete of a stored task that the caller
\* does not own (evaluated in the state before the request)
ForeignTask(l) ==
    /\ IsOp(l, {"update", "delete"})
    /\ l.req.id \in DOMAIN tasks
    /\ tasks[l.req.id].user # CallerOf(l)

\* C3 (as stated): an update or delete of another user's task is answered
\* 404, never 401, and the task store is unchanged
C3_ForeignIsNotFound ==
    [][ForeignTask(last') =>
          /\ last'.resp.status = 404
          /\ last'.resp.status # 401
          /\ tasks' = tasks]_vars

\* C3 (amended): a delete, or an update whose body passes field validation,
\* of another user's task is answered 404 'Task not found'; an update whose
\* body fails field validation is answered 400; in both cases the answer is
\* never 401 and the task store is unchanged
C3_ForeignIsNotFoundWhenValid ==
    [][ForeignTask(last') =>
          /\ IF IsOp(last', {"update"}) /\ PutErrors(last'.req.body) # {}
             THEN last'.resp.status = 400
             ELSE last'.resp = [status |-> 404, message |-> "Task not found"]
          /\ last'.resp.status # 401
          /\ tasks' = tasks]_vars

\* a delete of another user's task was answered 404 and the task is still
\* stored
C3_Witness ==
    /\ IsOp(last, {"delete"})
    /\ last.resp.status = 404
    /\ last.req.id \in DOMAIN tasks
    /\ tasks[last.req.id].user # CallerOf(last)

\* no bearer token, or a token that is malformed, tampered or expired
BadCredential(h) ==
    \/ h.scheme # "Bearer"
    \/ ~Has(h, "token")
    \/ ~h.token.wellFormed
    \/ ~h.token.sigValid
    \/ h.token.expired

\* C4: a request to a profile or task route without a bearer token, or with
\* a malformed, tampered or expired one, is answered 401 and leaves the
\* user store and the task store as they were
C4_BadTokenIs401 ==
    [][(Has(last'.req, "header") /\ BadCredential(last'.req.header)) =>
          /\ last'.resp.status = 401
          /\ users' = users
          /\ tasks' = tasks]_vars

\* a delete of a stored task with an expired token was answered 401
C4_Witness ==
    /\ IsOp(last, {"delete"})
    /\ last.req.header = Bearer(Token("u1", TRUE, TRUE, TRUE))
    /\ last.resp.status = 401
    /\ last.req.id \in DOMAIN tasks
    /\ tasks[last.req.id].user = "u1"

\* C5: a route handler is reached only when the token verified and its
\* identifier resolves to a stored user, whose record without the password
\* is the request identity; a valid token of a user that does not exist is
\* answered 401 without reaching the handler
C5_HandlerOnlyBehindGate ==
    [][Has(last'.req, "header") =>
          LET h == last'.req.header IN
          /\ last'.reached =>
                /\ ~BadCredential(h)
                /\ h.token.id \in DOMAIN users
                /\ last'.identity =
                      [id |-> h.token.id,
                       name |-> users[h.token.id].name,
                       email |-> users[h.token.id].email,
                       avatar |-> users[h.token.id].avatar]
          /\ (~BadCredential(h) /\ h.token.id \notin DOMAIN users) =>
                /\ ~last'.reached
                /\ last'.resp.status = 401
                /\ users' = users
                /\ tasks' = tasks]_vars

\* a create with a valid token of the unknown user u3 was answered 401
C5_Witness ==
    /\ IsOp(last, {"create"})
    /\ last.req.header = Bearer(ValidToken("u3"))
    /\ last.resp.status = 401
    /\ ~last.reached

\* the body b of a create or update request breaks a field rule: title
\* missing (create), empty or over 200 characters, description over 1000
\* characters, status or priority outside its set, dueDate not a date
FailsFieldRules(op, b) ==
    \/ op = "create" /\ ~Has(b, "title")
    \/ Has(b, "title") /\ (Trim(b.title) = <<>> \/ Len(Trim(b.title)) > 200)
    \/ Has(b, "description") /\ Len(Trim(b.description)) > 1000
    \/ Has(b, "status") /\ b.status \notin {"todo", "in-progress", "completed"}
    \/ Has(b, "priority") /\ b.priority \notin {"low", "medium", "high"}
    \/ Has(b, "dueDate") /\ ~IsISO8601(b.dueDate)

\* C6: a create or update request that fails field validation is answered
\* 400 'Validation failed' and the task store is unchanged
C6_InvalidChangesNothing ==
    [][(IsOp(last', {"create", "update"})
          /\ FailsFieldRules(last'.req.op, last'.req.body)) =>
          /\ last'.resp.status = 400
          /\ last'.resp.message = "Validation failed"
          /\ tasks' = tasks
          /\ nextId' = nextId]_vars

\* an update of the caller's own stored task with a 201-character title was
\* answered 400
C6_Witness ==
    /\ IsOp(last, {"update"})
    /\ last.req.body = [title |-> LongTitle]
    /\ last.resp.status = 400
    /\ last.req.id \in DOMAIN tasks
    /\ tasks[last.req.id].user = CallerOf(last)

InputFields == {"title", "description", "status", "priority", "dueDate"}

\* this step is a GET by the creator of the task that the previous step
\* created
GetAfterCreate(c, g) ==
    /\ IsOp(c, {"create"})
    /\ c.resp.status = 201
    /\ IsOp(g, {"get"})
    /\ g.req.id = c.resp.task._id
    /\ g.req.header = c.req.header

\* C8 (as stated): a GET that follows a successful create returns the task
\* with title, description, status, priority and dueDate equal to the
\* values sent
C8_RoundTripVerbatim ==
    [][GetAfterCreate(last, last') =>
          /\ last'.resp.status = 200
          /\ \A f \in InputFields \cap DOMAIN last.req.body :
                /\ Has(last'.resp.task, f)
                /\ last'.resp.task[f] = last.req.body[f]]_vars

\* the value the store keeps for an input field
Stored(f, v) ==
    CASE f \in {"title", "description"} -> Trim(v)
      [] f = "dueDate" -> CastDate(v)
      [] OTHER -> v

\* C8 (amended): a GET that follows a successful create returns the task
\* with status and priority equal to the values sent, title and
\* description equal to the values sent without their leading and trailing
\* whitespace, and dueDate equal to the instant sent in its UTC
\* serialisation
C8_RoundTripNormalised ==
    [][GetAfterCreate(last, last') =>
          /\ last'.resp.status = 200
          /\ \A f \in InputFields \cap DOMAIN last.req.body :
                /\ Has(last'.resp.task, f)
                /\ last'.resp.task[f] = Stored(f, last.req.body[f])]_vars

\* the newest task, created from the title " a " and never updated, was
\* read back with the title "a"
C8_Witness ==
    /\ IsOp(last, {"get"})
    /\ last.resp.status = 200
    /\ last.req.id = nextId - 1
    /\ last.resp.task.title = <<"a">>
    /\ last.resp.task.status = "todo"
    /\ ~Has(last.resp.task, "description")

\* C9: a task created through POST /tasks is stored with the caller as its
\* owner even when the body carries a user field, and with status todo,
\* priority medium and dueDate null where the body omits them
C9_CreateOwnerAndDefaults ==
    [][(IsOp(last', {"create"}) /\ last'.resp.status = 201) =>
          LET b == last'.req.body
              t == last'.resp.task
          IN /\ t._id \notin DOMAIN tasks
             /\ DOMAIN tasks' = DOMAIN tasks \cup {t._id}
             /\ tasks'[t._id] = t
             /\ \A id \in DOMAIN tasks : tasks'[id] = tasks[id]
             /\ t.user = CallerOf(last')
             /\ ~Has(b, "status") => t.status = "todo"
             /\ ~Has(b, "priority") => t.priority = "medium"
             /\ ~Has(b, "dueDate") => t.dueDate = NULL]_vars

\* a create whose body names another user as owner succeeded while a task
\* created with defaults is stored
C9_Witness ==
    /\ IsOp(last, {"create"})
    /\ last.resp.status = 201
    /\ Has(last.req.body, "user")
    /\ last.req.body.user # CallerOf(last)
    /\ \E id \in DOMAIN tasks :
          /\ tasks[id].status = "todo"
          /\ tasks[id].priority = "medium"
          /\ tasks[id].dueDate = NULL

\* C10: GET /tasks/:id answers 200 with the task exactly when the task is
\* stored and owned by the caller; a well-formed id of no task and one of
\* another user's task get the same 404; a malformed id gets 400
C10_GetOneOutcome ==
    IsOp(last, {"get"}) =>
        LET id == last.req.id
            U == CallerOf(last)
        IN IF id < 1
           THEN last.resp = [status |-> 400, message |-> "Invalid task ID"]
           ELSE IF id \in DOMAIN tasks /\ tasks[id].user = U
           THEN last.resp = [status |-> 200, task |-> tasks[id]]
           ELSE last.resp = [status |-> 404, message |-> "Task not found"]

\* a GET of a stored task of another user was answered 404
C10_Witness ==
    /\ IsOp(last, {"get"})
    /\ last.resp.status = 404
    /\ last.req.id \in DOMAIN tasks
    /\ tasks[last.req.id].user # CallerOf(last)


\* the address of a profile request is held by a user other than the caller
HeldByOther(l) ==
    /\ Has(l.req.body, "email")
    /\ \E u \in DOMAIN users \ {CallerOf(l)} :
          users[u].email = NormalizeEmail(l.req.body.email)

\* the address of a profile request is the caller's current one
OwnEmail(l) ==
    /\ Has(l.req.body, "email")
    /\ users[CallerOf(l)].email = NormalizeEmail(l.req.body.email)

DuplicateEmail == [status |-> 400, message |-> "Email is already taken by another user"]

\* C11 as stated: every PUT /profile whose email is held by a different user
\* is answered DuplicateEmail (400) and changes no user record; every PUT
\* /profile whose email is the caller's own current one succeeds
C11_DuplicateEmailAlways ==
    [][IsOp(last', {"putProfile"}) =>
          /\ HeldByOther(last') => last'.resp = DuplicateEmail /\ users' = users
          /\ OwnEmail(last') =>
                last'.resp.status = 200 /\ users'[CallerOf(last')].email = users[CallerOf(last')].email
      ]_vars

\* C11 amended: for a PUT /profile whose body passes the field rules, an
\* email held by a different user is answered DuplicateEmail (400) with every
\* user record unchanged, and the caller's own current email does not trip the
\* check: the update succeeds and the other submitted fields are stored; a
\* body that fails the field rules is answered 400 "Validation failed" and
\* changes no user record either
C11_DuplicateEmailWhenValid ==
    [][IsOp(last', {"putProfile"}) =>
          LET b == last'.req.body
              uid == CallerOf(last')
          IN /\ (ProfileErrors(b) = {} /\ HeldByOther(last')) =>
                    last'.resp = DuplicateEmail /\ users' = users
             /\ (ProfileErrors(b) = {} /\ OwnEmail(last')) =>
                    /\ last'.resp.status = 200
                    /\ users'[uid].email = users[uid].email
                    /\ Has(b, "avatar") => users'[uid].avatar = b.avatar
                    /\ \A u \in DOMAIN users \ {uid} : users'[u] = users[u]
             /\ ProfileErrors(b) # {} =>
                    /\ last'.resp.status = 400
                    /\ last'.resp.message = "Validation failed"
                    /\ users' = users
      ]_vars

\* a request that would also have changed name and avatar was refused for its
\* email, after the holder of that email had changed the own record
C11_Witness ==
    /\ IsOp(last, {"putProfile"})
    /\ last.resp = DuplicateEmail
    /\ Has(last.req.body, "name")
    /\ HeldByOther(last)
    /\ users[CallerOf(last)].name # last.req.body.name
    /\ \E u \in DOMAIN users : users[u].avatar = "pic"

\* the step is the mount effect of the provider
MountStep == loading /\ ~loading'

\* the step handles the answer of the start-up GET /auth/me
MeResponseStep ==
    /\ event'.name = "meResponse"
    /\ \E r \in pending \ pending' : r.kind = "me"

\* C12: at start-up with a stored token and a cached user the session is
\* authenticated with the cached user while GET /auth/me is still in flight;
\* when that request fails, token and cached user are removed and the session
\* is anonymous; when it succeeds, the session is authenticated with the user
\* of the response
C12_StartUp ==
    [][/\ (MountStep /\ localStorage.token # JsNull /\ localStorage.user # JsNull) =>
             /\ user' = JsonParse(localStorage.user)
             /\ user' # JsNull
             /\ [kind |-> "me", header |-> Bearer(localStorage.token)] \in pending'
             /\ localStorage' = localStorage
       /\ (MeResponseStep /\ event'.resp.status # 200) =>
             /\ localStorage'.token = JsNull
             /\ localStorage'.user = JsNull
             /\ user' = JsNull
       /\ (MeResponseStep /\ event'.resp.status = 200) =>
             /\ user' = event'.resp.user
             /\ user' # JsNull
      ]_vars

\* the start-up check came back with the record as changed from another
\* device, and the session shows the record of the response
C12_Witness ==
    /\ event.name = "meResponse"
    /\ event.resp.status = 200
    /\ user = event.resp.user
    /\ user.name = <<"Z">>
    /\ localStorage.token # JsNull

\* C13: within one page load the session turns authenticated only by a
\* successful login or register or by the optimistic load at start-up, and
\* turns anonymous only by logout or a failed re-verification; so after
\* logout it stays anonymous until a login or register succeeds
C13_SessionTransitions ==
    [][event'.name # "reload" =>
          /\ (user = JsNull /\ user' # JsNull) =>
                \/ event'.name \in {"loginResponse", "registerResponse"}
                   /\ event'.resp.status \in {200, 201}
                \/ MountStep
          /\ (user # JsNull /\ user' = JsNull) =>
                \/ event'.name = "logout"
                \/ MeResponseStep /\ event'.resp.status # 200
      ]_vars

\* C14: whenever the session is authenticated, the storage holds a token and
\* that token was issued for the session's user
C14_TokenOfUser ==
    user # JsNull =>
        /\ localStorage.token # JsNull
        /\ localStorage.token.id = user.id

\* a list request that was answered with a result
ListAnswered(l) == IsOp(l, {"list"}) /\ l.resp.status = 200

\* C15: GET /tasks returns every stored task that matches the request's
\* filter, each once, ordered by sortBy in the direction of sortOrder
\* (createdAt, descending when not given), with count the number returned
C15_CompleteAndSorted ==
    ListAnswered(last) =>
        LET q == last.req.query
            r == last.resp.tasks
            by == IF Has(q, "sortBy") THEN q.sortBy ELSE "createdAt"
            dir == IF Has(q, "sortOrder") THEN q.sortOrder ELSE "desc"
        IN /\ ResultIds(last) = {i \in DOMAIN tasks : Matches(tasks[i], CallerOf(last), q)}
           /\ Len(r) = Cardinality(ResultIds(last))
           /\ \A i \in 1..Len(r) : r[i] = tasks[r[i]._id]
           /\ last.resp.count = Len(r)
           /\ \A i, j \in 1..Len(r) :
                 i < j => IF dir = "asc" THEN SortLeq(r[i], r[j], by)
                          ELSE SortLeq(r[j], r[i], by)

\* a request without sort parameters returned two tasks, the newer one first
C15_Witness ==
    /\ ListAnswered(last)
    /\ last.req.query = EmptyObj
    /\ last.resp.count = 2
    /\ last.resp.tasks[1].createdAt > last.resp.tasks[2].createdAt

\* position of a priority in the order of its name as a string
StringPosition(p) == CHOOSE i \in 1..3 : <<"high", "low", "medium">>[i] = p

\* C16: a list sorted by priority is in the order of the priority names as
\* strings: ascending high, low, medium, and descending the reverse
C16_PriorityIsStringOrder ==
    (ListAnswered(last) /\ Has(last.req.query, "sortBy")
       /\ last.req.query.sortBy = "priority") =>
        LET r == last.resp.tasks
            asc == Has(last.req.query, "sortOrder") /\ last.req.query.sortOrder = "asc"
        IN \A i, j \in 1..Len(r) :
              i < j => IF asc
                       THEN StringPosition(r[i].priority) <= StringPosition(r[j].priority)
                       ELSE StringPosition(r[i].priority) >= StringPosition(r[j].priority)

\* an ascending priority sort returned a low task before a medium task
C16_Witness ==
    /\ ListAnswered(last)
    /\ last.req.query = [sortBy |-> "priority", sortOrder |-> "asc"]
    /\ last.resp.count = 2
    /\ last.resp.tasks[1].priority = "low"
    /\ last.resp.tasks[2].priority = "medium"

\* rank of a priority by what it means
Severity(p) == CASE p = "low" -> 1 [] p = "medium" -> 2 [] p = "high" -> 3

\* C17: the list the Dashboard requests for "Priority (High to Low)" has
\* every high task before every medium task before every low task, and the
\* list for "Priority (Low to High)" has the reverse order
C17_SortOptionHonoursLabel ==
    ListAnswered(last) =>
        LET r == last.resp.tasks IN
        /\ last.req.query = FetchParams(SelectSort(DefaultFilters, "Priority (High to Low)")) =>
              \A i, j \in 1..Len(r) : i < j => Severity(r[i].priority) >= Severity(r[j].priority)
        /\ last.req.query = FetchParams(SelectSort(DefaultFilters, "Priority (Low to High)")) =>
              \A i, j \in 1..Len(r) : i < j => Severity(r[i].priority) <= Severity(r[j].priority)

\* s occurs in t as a substring, letter case ignored, every character literal
ContainsLiteral(s, t) ==
    \E k \in 1..(Len(t) - Len(s) + 1) :
        \A i \in 1..Len(s) : Lower(s[i]) = Lower(t[k + i - 1])

\* C18: a list request whose only filter is search=s is answered with exactly
\* the caller's tasks whose title or description contains s (trimmed) as a
\* literal substring, letter case ignored, whatever characters s has
C18_SearchIsLiteral ==
    (IsOp(last, {"list"}) /\ last.reached
       /\ DOMAIN last.req.query \subseteq {"search", "sortBy", "sortOrder"}
       /\ QueryErrors(last.req.query) = {}
       /\ SearchOf(last.req.query) # <<>>) =>
        /\ last.resp.status = 200
        /\ ResultIds(last) =
              {i \in DOMAIN tasks :
                  /\ tasks[i].user = CallerOf(last)
                  /\ \/ ContainsLiteral(SearchOf(last.req.query), tasks[i].title)
                     \/ /\ Has(tasks[i], "description")
                        /\ ContainsLiteral(SearchOf(last.req.query), tasks[i].description)}

\* C19: a failure that reaches the error handler without a status of its own
\* is answered 500 with a message that is not the error's own message, and
\* the response carries the stack exactly when NODE_ENV is development
C19_GenericInternalError ==
    (Has(last.req, "error") /\ ~Has(last.req.error, "status")) =>
        /\ last.resp.status = 500
        /\ (Has(last.req.error, "message") /\ last.req.error.message # "") =>
              last.resp.message # last.req.error.message
        /\ Has(last.resp, "stack") <=> last.req.env = "development"

C21_NoServingWithoutSecret ==
    ~proc.secret => (proc.phase # "serving" /\ last.req.op = "none")

\* C22: a PUT /profile leaves each of name, email and avatar (and the
\* password) that its body does not carry at the stored value, adds and
\* removes no user, and changes no record but the caller's
C22_OnlySubmittedFields ==
    [][IsOp(last', {"putProfile"}) =>
          LET uid == CallerOf(last')
              b == last'.req.body
          IN /\ DOMAIN users' = DOMAIN users
             /\ \A u \in DOMAIN users \ {uid} : users'[u] = users[u]
             /\ \A f \in {"name", "email", "avatar", "password"} \ DOMAIN b :
                   users'[uid][f] = users[uid][f]
      ]_vars

\* a body with only a name was stored for a user whose avatar and email had
\* been changed before, and both are still as changed
C22_Witness ==
    /\ IsOp(last, {"putProfile"})
    /\ last.resp.status = 200
    /\ DOMAIN last.req.body = {"name"}
    /\ users[CallerOf(last)].name = <<"Z">>
    /\ users[CallerOf(last)].avatar = "pic"
    /\ users[CallerOf(last)].email = "cy@x.com"

\* C23: no two users hold the same email, and a PUT /profile that loses a
\* race for an email is answered DuplicateEmail (400): no PUT /profile is
\* answered 500
C23_RaceLoserGetsDuplicateEmail ==
    /\ \A u, v \in DOMAIN users : u # v => users[u].email # users[v].email
    /\ IsOp(last, {"putProfile"}) => last.resp.status # 500

\* C24: a request with a correctly signed, unexpired token that meets a
\* store failure in the gate's user lookup is answered 500, not 401
C24_StoreFailureIs500 ==
    (Has(last.req, "storeDown") /\ ~BadCredential(last.req.header)) =>
        last.resp.status = 500

\* C25: a create or update request of the form whose dueDate is null passes
\* validation; the created task is stored with dueDate null, and the update
\* of an own task is applied
C25_NullDueDateAccepted ==
    (IsOp(last, {"create", "update"}) /\ Has(last.req.body, "dueDate")
       /\ last.req.body.dueDate = NULL) =>
        /\ last.resp.status # 400
        /\ IsOp(last, {"create"}) =>
              /\ last.resp.status = 201
              /\ tasks[last.resp.task._id].dueDate = NULL

\* the step in which the store call of the in-flight request r returns and
\* r is answered
WriteStep(r) == r \in inflight /\ inflight' = inflight \ {r} /\ last'.req = r.req

\* C26: when updates of one task overlap, each one is answered 200 with the
\* task, every field it submits takes its value at its write, and every field
\* it does not submit keeps the value the earlier writes left
C26_LastWriteWinsPerField ==
    [][\A r \in inflight : (r.req.op = "update" /\ WriteStep(r)) =>
          LET id == r.req.id IN
          /\ last'.resp.status = 200
          /\ id \in DOMAIN tasks'
          /\ last'.resp.task = tasks'[id]
          /\ \A f \in DOMAIN r.update \cap TaskPaths :
                tasks'[id][f] = CastPath(f, r.update[f])
          /\ \A f \in DOMAIN tasks[id] \ DOMAIN r.update :
                tasks'[id][f] = tasks[id][f]]_vars

\* an update is in flight whose task was changed, after its ownership check,
\* by the write of another update that was answered 200
C26_Witness ==
    /\ IsOp(last, {"update"}) /\ last.resp.status = 200
    /\ \E r \in inflight :
          /\ r.req.op = "update" /\ r.req.id = last.req.id
          /\ r.task # tasks[r.req.id]
          /\ r.task.user = tasks[r.req.id].user

\* C27: every stored task has a non-empty title of at most 200 characters, a
\* description of at most 1000 characters, a status and a priority of their
\* enumerations, and an owner
C27_StoredTasksValid ==
    \A id \in DOMAIN tasks :
        LET t == tasks[id] IN
        /\ t.title # <<>> /\ Trim(t.title) # <<>> /\ Len(t.title) <= TitleMax
        /\ Has(t, "description") => Len(t.description) <= DescriptionMax
        /\ t.status \in StatusEnum
        /\ t.priority \in PriorityEnum
        /\ Has(t, "user") /\ t.user \in DOMAIN users

\* an update with an invalid body was refused on a task that an earlier update
\* had changed
C27_Witness ==
    /\ IsOp(last, {"update"}) /\ last.resp.status = 400
    /\ last.req.body \in InvalidUpdateBodies
    /\ last.req.id \in DOMAIN tasks
    /\ tasks[last.req.id].status = "completed"
    /\ tasks[last.req.id].createdAt = last.req.id
    /\ tasks[last.req.id].title = <<"b">>

\* C28: the ownership check and the write act as one step: an update answered
\* 200 carries the updated task and was applied to a task its requester owned
\* at the write, and a delete is answered with success only when its own store
\* call removed the task
C28_CheckAndWriteAtomic ==
    [][\A r \in inflight : (WriteStep(r) /\ last'.resp.status = 200) =>
          LET id == r.req.id IN
          /\ id \in DOMAIN tasks
          /\ tasks[id].user = r.auth.user.id
          /\ r.req.op = "update" => last'.resp.task = tasks'[id]
          /\ r.req.op = "delete" => id \notin DOMAIN tasks']_vars

\* C29: the answer of the start-up GET /auth/me touches only the session that
\* sent it: when a login has since stored another token, a failed answer
\* leaves the new token, cached user and session in place, and a successful
\* answer does not replace the new session's user
C29_StaleVerifyIgnored ==
    [][\A r \in pending \ pending' :
          (/\ MeResponseStep
           /\ r.kind = "me"
           /\ localStorage.token # JsNull
           /\ user # JsNull
           /\ AttachToken(localStorage) # r.header) =>
              /\ localStorage' = localStorage
              /\ user' = user]_vars

\* C30: once every list request of the Dashboard has been answered, the list
\* on display is an answer of the Task Query Engine to the current filters
C30_ListMatchesFilters ==
    (dash.sent > 0 /\ dash.pending = {}) =>
        dash.tasks \in FindSorted(tasks, "u1", FetchParams(dash.filters))
====
